---- MODULE Spec2Model ----
(***************************************************************************)
(* Model of zkapp.py, the gas fee profiler: the percentile function pct,   *)
(* the per-block extractor sample_block_fees, the window aggregator        *)
(* analyze_fees and the driver main.                                       *)
(*                                                                         *)
(* Number representation.  Fee fields of blocks and transactions are       *)
(* integers in wei.  A gwei amount (a Python float in the source) is       *)
(* represented exactly by an integer number of "units", 20 units to the    *)
(* wei (2 * 10^10 units to the gwei): a median of integers needs halves, a *)
(* median of such medians needs quarters, and the factor 1.2 needs fifths. *)
(* round(x, 3) rounds to the nearest multiple of 0.001 gwei = Milli units. *)
(***************************************************************************)
EXTENDS Integers, Sequences, FiniteSets, TLC

VARIABLES pc, args, cid, block_number, head, start_block, n, sampled_blocks,
          base_fees, effs, tips, fetched, connects, err, report,
          call, first, fin, fout

vars == <<pc, args, cid, block_number, head, start_block, n, sampled_blocks,
          base_fees, effs, tips, fetched, connects, err, report,
          call, first, fin, fout>>

(***************************************************************************)
(* Bounds of the model.                                                    *)
(***************************************************************************)
MaxHead == 3      \* block heights are 0 .. MaxHead
MaxBlocks == 5    \* --blocks ranges over -1 .. MaxBlocks
MaxStep == 3      \* --step ranges over -1 .. MaxStep
QDen == 4         \* percentiles are the fractions k / QDen, k in -1 .. QDen + 1
MaxLen == 4       \* longest series handed to pct on its own
MaxTxs == 2       \* most transactions in a block handed to the extractor on its own

Min2(a, b) == IF a <= b THEN a ELSE b
Max2(a, b) == IF a >= b THEN a ELSE b

(***************************************************************************)
(* sorted(values): ascending insertion sort.                               *)
(***************************************************************************)
RECURSIVE Insert(_, _)
Insert(x, s) ==
    IF s = <<>> THEN <<x>>
    ELSE IF x <= Head(s) THEN <<x>> \o s
    ELSE <<Head(s)>> \o Insert(x, Tail(s))

RECURSIVE sorted(_)
sorted(s) == IF s = <<>> THEN <<>> ELSE Insert(Head(s), sorted(Tail(s)))

(***************************************************************************)
(* statistics.median on a non-empty series: the middle element, or the     *)
(* mean of the two middle elements.  Series entries are even numbers of    *)
(* units where the mean is taken, so the division is exact.                *)
(***************************************************************************)
median(s) ==
    LET d == sorted(s)
        len == Len(s)
    IN  IF len % 2 = 1 THEN d[(len \div 2) + 1]
        ELSE (d[len \div 2] + d[(len \div 2) + 1]) \div 2

(***************************************************************************)
(* Python's round(x) of the float num / den, den > 0, num >= 0: nearest    *)
(* integer, an exact half going to the even neighbour.  The percentiles    *)
(* of the model are dyadic or small fractions whose products with an       *)
(* integer are computed exactly.                                           *)
(***************************************************************************)
RoundDown(num, den) == num \div den
RoundHalfEven(num, den) ==
    LET k == num \div den
        r == num % den
    IN  IF 2 * r < den THEN k
        ELSE IF 2 * r > den THEN k + 1
        ELSE IF k % 2 = 0 THEN k ELSE k + 1

(***************************************************************************)
(* pct(values, q) with q = qn / QDen.  Sequences are 1-based here, so the  *)
(* element at Python index idx is sorted_vals[idx + 1].                    *)
(***************************************************************************)
pctDescending(values, qn) ==
    IF values = <<>> THEN 0
    ELSE LET q == Max2(0, Min2(QDen, qn))
             sorted_vals == sorted(values)
             idx == RoundHalfEven((QDen - q) * (Len(sorted_vals) - 1), QDen)
         IN  sorted_vals[idx + 1]
pct(values, qn) ==
    IF values = <<>> THEN 0
    ELSE LET q == Max2(0, Min2(QDen, qn))
             sorted_vals == sorted(values)
             idx == RoundHalfEven(q * (Len(sorted_vals) - 1), QDen)
         IN  sorted_vals[idx + 1]

(***************************************************************************)
(* Fixed-point representation of the floats.                               *)
(***************************************************************************)
Milli == 20 * 1000000        \* 0.001 gwei, in units

\* Web3.from_wei(w, "gwei") followed by float(): w / 10^9 gwei, in units.
from_wei(w) == w * 20

(***************************************************************************)
(* Python's round(x, ndigits) of a float rounds the double's exact binary  *)
(* value, so a decimal midpoint goes up or down according to which side of *)
(* the midpoint the nearest double lies.  FloatTieUp3 lists the k for      *)
(* which the double nearest to (k + 0.5) / 1000 lies above the midpoint    *)
(* (round(0.0015, 3) = 0.002, round(0.0055, 3) = 0.005), FloatTieUp2 the   *)
(* same for (k + 0.5) / 100.  The fee values drawn below reach midpoints   *)
(* only at sums and products whose double is that nearest double.          *)
(***************************************************************************)
FloatTieUp3 == {0, 1, 2, 3, 8, 10}
FloatTieUp2 == {0, 2, 3, 5, 6, 8, 9, 11}

\* x >= 0 rounded to a multiple of the granule g; the result counts granules.
RoundTo(x, g, ups) ==
    LET k == x \div g
        r == x % g
    IN  IF 2 * r < g THEN k
        ELSE IF 2 * r > g THEN k + 1
        ELSE IF k \in ups THEN k + 1 ELSE k

\* round(x, 3) of a gwei amount, in units.
round3(x) == RoundTo(x, Milli, FloatTieUp3) * Milli

\* round(elapsed, 2) of an elapsed time in milliseconds, in hundredths of a second.
round2(ms) == RoundTo(ms, 10, FloatTieUp2)

(***************************************************************************)
(* Fields of a block or a transaction as the chain client returns them: a  *)
(* key can be absent, present with the value None, or present with an      *)
(* integer.                                                                *)
(***************************************************************************)
Absent == [k |-> "absent", v |-> 0]
Null == [k |-> "null", v |-> 0]
Some(x) == [k |-> "int", v |-> x]

\* int(getattr(obj, name, 0)): the default 0 when the key is absent; with the
\* key present and None, int(None) raises TypeError.
IntRaises(f) == f.k = "null"
IntOf(f) == IF f.k = "int" THEN f.v ELSE 0

\* getattr(tx, "type", 0) == 2
IsDynamicFee(tx) == tx.type.k = "int" /\ tx.type.v = 2

TxRaises(tx) ==
    IF IsDynamicFee(tx)
    THEN IntRaises(tx.maxPriorityFeePerGas) \/ IntRaises(tx.maxFeePerGas)
    ELSE IntRaises(tx.gasPrice)

\* the wei amount appended (after conversion) to effective_prices
TxEffWei(tx, bf) ==
    IF IsDynamicFee(tx)
    THEN Min2(IntOf(tx.maxFeePerGas), bf + IntOf(tx.maxPriorityFeePerGas))
    ELSE IntOf(tx.gasPrice)

\* the wei amount appended (after conversion) to tips
TxTipWeiNoFloor(tx, bf) ==
    IF IsDynamicFee(tx)
    THEN IntOf(tx.maxPriorityFeePerGas)
    ELSE IntOf(tx.gasPrice) - bf
TxTipWei(tx, bf) ==
    IF IsDynamicFee(tx)
    THEN IntOf(tx.maxPriorityFeePerGas)
    ELSE Max2(0, IntOf(tx.gasPrice) - bf)

(***************************************************************************)
(* sample_block_fees(block).  raised is TRUE when an int(None) raises      *)
(* TypeError; the three statistics are then meaningless.                   *)
(***************************************************************************)
sample_block_fees(block) ==
    LET base_fee_wei == IntOf(block.baseFeePerGas)
        bf == base_fee_wei
        txs == block.transactions
        effective_prices == [i \in 1..Len(txs) |-> from_wei(TxEffWei(txs[i], bf))]
        txtips == [i \in 1..Len(txs) |-> from_wei(TxTipWei(txs[i], bf))]
        raised == \/ IntRaises(block.baseFeePerGas)
                  \/ \E i \in 1..Len(txs) : TxRaises(txs[i])
    IN  IF raised
        THEN [raised |-> TRUE, base_fee_gwei |-> 0,
              median_effective_gwei |-> 0, median_tip_gwei |-> 0]
        ELSE [raised |-> FALSE,
              base_fee_gwei |-> from_wei(base_fee_wei),
              median_effective_gwei |->
                  IF effective_prices # <<>> THEN median(effective_prices) ELSE 0,
              median_tip_gwei |-> IF txtips # <<>> THEN median(txtips) ELSE 0]

(***************************************************************************)
(* NETWORKS and network_name.                                              *)
(***************************************************************************)
NETWORKS == {1, 11155111, 10, 137, 42161, 8453}
network_name(c) == IF c \in NETWORKS THEN <<"known", c>> ELSE <<"Unknown (chain ID)", c>>

(***************************************************************************)
(* Lines 136-171 of analyze_fees: the report built from the three series.  *)
(* Gwei amounts are in units, timingSec in hundredths of a second.         *)
(***************************************************************************)
recommended_tip(tip_series, target_pct) ==
    LET tip_p50 == IF tip_series # <<>> THEN median(tip_series) ELSE 0
        tip_target == IF tip_series # <<>> THEN pct(tip_series, target_pct) ELSE 0
    IN  round3((Max2(tip_p50, tip_target) \div 5) * 6)

recommended_max_fee_no_tip(base_series, tip_series, target_pct) ==
    LET base_target == IF base_series # <<>> THEN pct(base_series, target_pct) ELSE 0
    IN  round3(base_target)
recommended_max_fee(base_series, tip_series, target_pct) ==
    LET base_target == IF base_series # <<>> THEN pct(base_series, target_pct) ELSE 0
    IN  round3(base_target + recommended_tip(tip_series, target_pct))

SeqMin(s) == CHOOSE x \in {s[i] : i \in 1..Len(s)} : \A i \in 1..Len(s) : x <= s[i]
SeqMax(s) == CHOOSE x \in {s[i] : i \in 1..Len(s)} : \A i \in 1..Len(s) : x >= s[i]

FeeReport(c, hd, sampled, a, elapsed, bs, es, ts) ==
    LET base_p50 == IF bs # <<>> THEN median(bs) ELSE 0
        base_target == IF bs # <<>> THEN pct(bs, a.percentile) ELSE 0
        tip_p50 == IF ts # <<>> THEN median(ts) ELSE 0
        tip_target == IF ts # <<>> THEN pct(ts, a.percentile) ELSE 0
    IN  [chainId |-> c,
         network |-> network_name(c),
         head |-> hd,
         sampledBlocks |-> sampled,
         blockWindow |-> a.blocks,
         step |-> a.step,
         targetPercentile |-> a.percentile,
         timingSec |-> round2(elapsed),
         baseFeeGwei |-> [p50 |-> round3(base_p50),
                          pTarget |-> round3(base_target),
                          min |-> IF bs # <<>> THEN round3(SeqMin(bs)) ELSE 0,
                          max |-> IF bs # <<>> THEN round3(SeqMax(bs)) ELSE 0],
         medianEffectivePriceGwei |-> IF es # <<>> THEN round3(median(es)) ELSE 0,
         medianTipGwei |-> [p50 |-> round3(tip_p50), pTarget |-> round3(tip_target)],
         recommendedForZK |->
             [maxPriorityFeeGwei |-> recommended_tip(ts, a.percentile),
              maxFeePerGasGwei |-> recommended_max_fee(bs, ts, a.percentile)]]

(***************************************************************************)
(* The environment: the command line, and what the chain client answers.   *)
(***************************************************************************)
Legacy(gp) ==
    [type |-> Some(0), gasPrice |-> gp, maxFeePerGas |-> Absent,
     maxPriorityFeePerGas |-> Absent]
Dynamic(mf, mp) ==
    [type |-> Some(2), gasPrice |-> Absent, maxFeePerGas |-> mf,
     maxPriorityFeePerGas |-> mp]
Block(bf, txs) == [baseFeePerGas |-> bf, transactions |-> txs]

\* The blocks the chain client serves during a run (fees in wei): an empty
\* pre-EIP-1559 block, a legacy transaction priced below the base fee, a
\* dynamic-fee transaction, a legacy transaction in a block without base fee,
\* and a block whose baseFeePerGas is present but None.
SampleBlocks ==
    { Block(Absent, <<>>),
      Block(Some(1500000), <<Legacy(Some(1000000))>>),
      Block(Some(1500000), <<Dynamic(Some(8000000), Some(3000000))>>),
      Block(Absent, <<Legacy(Some(1000000))>>),
      Block(Null, <<>>) }

\* w3.eth.get_block(n, full_transactions=True): a block, or BlockNotFound.
Responses ==
    {[found |-> TRUE, block |-> b] : b \in SampleBlocks}
        \cup {[found |-> FALSE, block |-> Block(Absent, <<>>)]}

ChainIds == {1}
ElapsedMs == {4, 15}        \* time.time() - t0, in milliseconds

\* --percentile: the minimum, a middle percentile, and one above 1.0
Percentiles == {0, QDen \div 2, QDen + 1}

\* w3.eth.block_number, read when --head is not given
ChainHeads == (MaxHead - 1)..MaxHead

ArgSet ==
    [blocks : -1..MaxBlocks, step : -1..MaxStep, percentile : Percentiles,
     head : {Absent} \cup {Some(h) : h \in -1..MaxHead}]

NoReport == <<>>
NoFirst == <<>>

(***************************************************************************)
(* Pieces of main and analyze_fees that the actions below use.             *)
(***************************************************************************)
\* main, line 205: args.blocks <= 0 or args.step <= 0
InvalidStepOnly(a) == a.step <= 0
Invalid(a) == a.blocks <= 0 \/ a.step <= 0

\* line 111: start_block = max(0, head - blocks + 1)
StartBlockOffByOne(hd, blocks) == Max2(0, hd - blocks)
StartBlock(hd, blocks) == Max2(0, hd - blocks + 1)

\* lines 113-115: the three series start empty in every call
KeepSeries(old) == old
FreshSeries(old) == <<>>

\* line 122: get_block raises when the chain client has no block for the height
SwallowFailure(resp) == FALSE
FetchRaises(resp) == ~resp.found

\* lines 126-129: a median joins its series only when it is > 0
KeepAlways(series, x) == Append(series, x)
KeepPositive(series, x) == IF x > 0 THEN Append(series, x) ELSE series

(***************************************************************************)
(* One run of main.                                                        *)
(***************************************************************************)
Init ==
    /\ pc = "main"
    /\ args \in ArgSet
    /\ cid = 0
    /\ block_number = 0
    /\ head = 0
    /\ start_block = 0
    /\ n = 0
    /\ sampled_blocks = 0
    /\ base_fees = <<>>
    /\ effs = <<>>
    /\ tips = <<>>
    /\ fetched = <<>>
    /\ connects = 0
    /\ err = "none"
    /\ report = NoReport
    /\ call = 0
    /\ first = NoFirst
    /\ fin = <<>>
    /\ fout = <<>>

\* main, lines 203-207: the check of --blocks and --step.
Validate ==
    /\ pc = "main"
    /\ IF Invalid(args)
       THEN pc' = "exit" /\ err' = "validation"
       ELSE pc' = "connect" /\ err' = err
    /\ UNCHANGED <<args, cid, block_number, head, start_block, n, sampled_blocks, base_fees,
                   effs, tips, fetched, connects, report, call, first, fin, fout>>

\* connect, lines 38-48.
Connect ==
    /\ pc = "connect"
    /\ connects' = connects + 1
    /\ \E is_connected \in BOOLEAN, c \in ChainIds :
          IF is_connected
          THEN pc' = "analyze" /\ cid' = c /\ err' = err
          ELSE pc' = "exit" /\ cid' = cid /\ err' = "connect"
    /\ UNCHANGED <<args, block_number, head, start_block, n, sampled_blocks, base_fees,
                   effs, tips, fetched, report, call, first, fin, fout>>

\* analyze_fees, lines 110-119: the head, the floor and the empty series.
\* w3.eth.block_number is read only without --head; a second call is answered
\* by the chain client as the first one was.
AnalyzeStart ==
    /\ pc = "analyze"
    /\ IF args.head.k = "int" \/ call > 0
       THEN block_number' = block_number
       ELSE block_number' \in ChainHeads
    /\ head' = IF args.head.k = "int" THEN args.head.v ELSE block_number'
    /\ start_block' = StartBlock(head', args.blocks)
    /\ base_fees' = FreshSeries(base_fees)
    /\ effs' = FreshSeries(effs)
    /\ tips' = FreshSeries(tips)
    /\ sampled_blocks' = 0
    /\ n' = head'
    /\ fetched' = <<>>
    /\ call' = call + 1
    /\ pc' = "loop"
    /\ UNCHANGED <<args, cid, connects, err, report, first, fin, fout>>

\* The answer of the chain client to the k-th get_block of a call, for height h.
Answers(k, h) ==
    IF first # NoFirst /\ k <= Len(first[1].fetched) /\ first[1].fetched[k].height = h
    THEN {first[1].fetched[k].resp}
    ELSE Responses

\* analyze_fees, lines 121-132: one iteration of the sampling loop.
FetchBlock ==
    /\ pc = "loop"
    /\ n >= start_block
    /\ \E resp \in Answers(Len(fetched) + 1, n) :
          LET stats == sample_block_fees(resp.block) IN
          /\ fetched' = Append(fetched, [height |-> n, resp |-> resp])
          /\ IF FetchRaises(resp)
             THEN /\ pc' = "raised"
                  /\ err' = "BlockNotFound"
                  /\ UNCHANGED <<sampled_blocks, base_fees, effs, tips, n>>
             ELSE IF stats.raised
             THEN /\ pc' = "raised"
                  /\ err' = "TypeError"
                  /\ sampled_blocks' = sampled_blocks + 1
                  /\ UNCHANGED <<base_fees, effs, tips, n>>
             ELSE /\ pc' = pc
                  /\ err' = err
                  /\ sampled_blocks' = sampled_blocks + 1
                  /\ base_fees' = Append(base_fees, stats.base_fee_gwei)
                  /\ effs' = KeepPositive(effs, stats.median_effective_gwei)
                  /\ tips' = KeepPositive(tips, stats.median_tip_gwei)
                  /\ n' = n - args.step
    /\ UNCHANGED <<args, cid, block_number, head, start_block, connects, report,
                   call, first, fin, fout>>

\* analyze_fees, lines 134-171: the range is exhausted, the report is returned.
Return ==
    /\ pc = "loop"
    /\ n < start_block
    /\ \E elapsed \in ElapsedMs :
          report' = <<FeeReport(cid, head, sampled_blocks, args, elapsed,
                                base_fees, effs, tips)>>
    /\ pc' = "returned"
    /\ UNCHANGED <<args, cid, block_number, head, start_block, n, sampled_blocks,
                   base_fees, effs, tips, fetched, connects, err, call, first,
                   fin, fout>>

\* main, lines 212-248: the report is printed.
Output ==
    /\ pc = "returned"
    /\ pc' = "done"
    /\ UNCHANGED <<args, cid, block_number, head, start_block, n, sampled_blocks,
                   base_fees, effs, tips, fetched, connects, err, report, call,
                   first, fin, fout>>

Next == Validate \/ Connect \/ AnalyzeStart \/ FetchBlock \/ Return \/ Output

Spec == Init /\ [][Next]_vars

(***************************************************************************)
(* analyze_fees called a second time by the same caller, with the same     *)
(* parameters and a chain client that answers as it did the first time.    *)
(***************************************************************************)
CallAgain ==
    /\ pc = "returned"
    /\ call = 1
    /\ first' = <<[report |-> report[1], fetched |-> fetched]>>
    /\ pc' = "analyze"
    /\ UNCHANGED <<args, cid, block_number, head, start_block, n, sampled_blocks,
                   base_fees, effs, tips, fetched, connects, err, report, call,
                   fin, fout>>

NextTwice == Next \/ CallAgain

SpecTwice == Init /\ [][NextTwice]_vars

(***************************************************************************)
(* pct and sample_block_fees on their own: the argument is drawn in the    *)
(* initial state and one step applies the function.                        *)
(***************************************************************************)
SeqsUpTo(S, m) == UNION {[1..k -> S] : k \in 0..m}

Idle ==
    /\ args = [blocks |-> 0, step |-> 0, percentile |-> 0, head |-> Absent]
    /\ cid = 0
    /\ block_number = 0
    /\ head = 0
    /\ start_block = 0
    /\ n = 0
    /\ sampled_blocks = 0
    /\ base_fees = <<>>
    /\ effs = <<>>
    /\ tips = <<>>
    /\ fetched = <<>>
    /\ connects = 0
    /\ err = "none"
    /\ report = NoReport
    /\ call = 0
    /\ first = NoFirst

\* series entries, in units, and the percentiles -1/QDen .. (QDen + 1)/QDen
PctValues == {10, 20, 30}
PctArgs == [values : SeqsUpTo(PctValues, MaxLen), q : -1..(QDen + 1)]

InitPct == pc = "pct" /\ fin \in PctArgs /\ fout = <<>> /\ Idle

ApplyPct ==
    /\ pc = "pct"
    /\ fout' = <<pct(fin.values, fin.q)>>
    /\ pc' = "pct_done"
    /\ UNCHANGED <<args, cid, block_number, head, start_block, n, sampled_blocks,
                   base_fees, effs, tips, fetched, connects, err, report, call,
                   first, fin>>

SpecPct == InitPct /\ [][ApplyPct]_vars

\* Transactions and blocks handed to the extractor, fees in wei.
LegacyTxs ==
    {[type |-> t, gasPrice |-> gp, maxFeePerGas |-> Absent,
      maxPriorityFeePerGas |-> Absent] :
        t \in {Absent, Some(0)}, gp \in {Absent, Null, Some(40), Some(55)}}
DynamicTxs ==
    {Dynamic(mf, mp) : mf \in {Absent, Null, Some(55), Some(100)},
                       mp \in {Absent, Null, Some(10)}}
ExtractBlocks ==
    {Block(bf, txs) : bf \in {Absent, Null, Some(50)},
                      txs \in SeqsUpTo(LegacyTxs \cup DynamicTxs, MaxTxs)}

InitExtract == pc = "extract" /\ fin \in ExtractBlocks /\ fout = <<>> /\ Idle

ApplyExtract ==
    /\ pc = "extract"
    /\ fout' = <<sample_block_fees(fin)>>
    /\ pc' = "extract_done"
    /\ UNCHANGED <<args, cid, block_number, head, start_block, n, sampled_blocks,
                   base_fees, effs, tips, fetched, connects, err, report, call,
                   first, fin>>

SpecExtract == InitExtract /\ [][ApplyExtract]_vars

(***************************************************************************)
(* Properties.                                                             *)
(***************************************************************************)
Returned == pc \in {"returned", "done"}
InAnalyze == pc \in {"loop", "raised", "returned", "done"}
Heights == [i \in 1..Len(fetched) |-> fetched[i].height]
Elems(s) == {s[i] : i \in 1..Len(s)}

\* the heights head, head - stride, ... that are >= max(0, head - windowSize + 1)
WindowHeights ==
    {h \in 0..MaxHead :
        /\ h <= head
        /\ h >= head - args.blocks + 1
        /\ (head - h) % args.step = 0}

\* C1: analyze requests exactly the heights head, head - stride, ... that are
\* >= max(0, head - windowSize + 1), in strictly descending order, each once
\* and one request per sampled block; none is below the floor, and the
\* report's sampledBlocks is the number of heights requested.
C1_SamplingRange ==
    InAnalyze =>
        /\ \A i \in 1..Len(fetched) : Heights[i] = head - (i - 1) * args.step
        /\ \A i \in 1..Len(fetched) : Heights[i] \in WindowHeights
        /\ Len(fetched) = sampled_blocks + (IF err = "BlockNotFound" THEN 1 ELSE 0)
        /\ Returned =>
              /\ Elems(Heights) = WindowHeights
              /\ report[1].sampledBlocks = Len(fetched)

\* a window larger than the chain: the loop stops at the floor 0 before the
\* stride would take it below
C1_Witness ==
    /\ pc = "returned"
    /\ args.blocks > head + 1
    /\ args.step = 2
    /\ Heights = <<3, 1>>
    /\ report[1].sampledBlocks = 2

\* C2: when the chain client returns no block for a sampled height, the
\* analysis fails there: no report, no later request, and the failing height
\* is not counted as sampled nor given an entry in any series.
C2_FetchFailureIsFatal ==
    \A i \in 1..Len(fetched) :
        ~fetched[i].resp.found =>
            /\ i = Len(fetched)
            /\ pc = "raised"
            /\ report = NoReport
            /\ sampled_blocks = i - 1
            /\ Len(base_fees) = i - 1

\* the second height fails while a third one was still to come
C2_Witness ==
    /\ pc = "raised"
    /\ err = "BlockNotFound"
    /\ Len(fetched) = 2
    /\ Heights[2] - args.step \in WindowHeights

\* C5: with a non-positive --blocks or --step the run ends in a validation
\* error: no connection is attempted and no block is requested.
C5_ValidationFirst ==
    (args.blocks <= 0 \/ args.step <= 0) =>
        /\ connects = 0
        /\ fetched = <<>>
        /\ report = NoReport
        /\ pc \in {"main", "exit"}
        /\ pc = "exit" => err = "validation"

C5_Witness ==
    /\ pc = "exit"
    /\ err = "validation"
    /\ args.blocks > 0
    /\ args.step <= 0

\* the statistics of the i-th block the chain client returned
StatsOf(i) == sample_block_fees(fetched[i].resp.block)

\* C9: while a call is running or has returned, the base-fee series has one
\* entry per sampled block, and the effective-price and tip series hold
\* exactly the per-block medians that are > 0, in sampling order.
C9_SeriesContents ==
    pc \in {"loop", "returned", "done"} =>
        LET all_effs == [i \in 1..Len(fetched) |-> StatsOf(i).median_effective_gwei]
            all_tips == [i \in 1..Len(fetched) |-> StatsOf(i).median_tip_gwei]
        IN  /\ Len(base_fees) = sampled_blocks
            /\ base_fees = [i \in 1..Len(fetched) |-> StatsOf(i).base_fee_gwei]
            /\ effs = SelectSeq(all_effs, LAMBDA x : x > 0)
            /\ tips = SelectSeq(all_tips, LAMBDA x : x > 0)
            /\ \A i \in 1..Len(effs) : effs[i] > 0
            /\ \A i \in 1..Len(tips) : tips[i] > 0

\* three blocks sampled, one without transactions and one with a zero tip
C9_Witness ==
    /\ pc = "returned"
    /\ sampled_blocks = 3
    /\ Len(base_fees) = 3
    /\ Len(effs) = 2
    /\ Len(tips) = 1

\* the report without its timingSec
Untimed(r) == [r EXCEPT !.timingSec = 0]

\* C3 as claimed: a second call with the same parameters and the same answers
\* of the chain client returns a report equal in every field, timingSec
\* included.
C3_IdenticalReport ==
    (call = 2 /\ Returned) => report[1] = first[1].report

\* C3: a second call with the same parameters and the same answers of the
\* chain client requests the same heights, returns, and returns a report
\* equal to the first in every field other than timingSec.
C3_IdenticalButTiming ==
    /\ (call = 2 /\ Returned) =>
          /\ Untimed(report[1]) = Untimed(first[1].report)
          /\ fetched = first[1].fetched
    /\ call = 2 => pc # "raised"

\* two calls over three blocks with tips, whose timings differ
C3_Witness ==
    /\ call = 2
    /\ pc = "returned"
    /\ sampled_blocks = 3
    /\ Len(tips) >= 2
    /\ report[1].timingSec # first[1].report.timingSec
    /\ Untimed(report[1]) = Untimed(first[1].report)

\* C4 as claimed: the extractor has no error path; a fee field that is
\* present but None is read as 0 and a BlockFeeStats is returned.
C4_NoErrorPath ==
    pc = "extract_done" => ~fout[1].raised

\* C10 as claimed: on the reported values, maxFee >= baseFee.pTarget + tip and
\* tip >= max(medianTip.p50, medianTip.pTarget).
C10_MaxFeeCoversBaseAndTip ==
    Returned =>
        LET r == report[1] IN
        /\ r.recommendedForZK.maxFeePerGasGwei
              >= r.baseFeeGwei.pTarget + r.recommendedForZK.maxPriorityFeeGwei
        /\ r.recommendedForZK.maxPriorityFeeGwei
              >= Max2(r.medianTipGwei.p50, r.medianTipGwei.pTarget)

\* C10: on the reported values, maxFee >= baseFee.pTarget + tip - 0.001 (the
\* base fee is added before it is rounded, so the sum can round one
\* thousandth below the sum of the rounded terms), maxFee >= tip, and
\* tip >= max(medianTip.p50, medianTip.pTarget).
C10_MaxFeeWithinOneMilli ==
    Returned =>
        LET r == report[1] IN
        /\ r.recommendedForZK.maxFeePerGasGwei + Milli
              >= r.baseFeeGwei.pTarget + r.recommendedForZK.maxPriorityFeeGwei
        /\ r.recommendedForZK.maxFeePerGasGwei
              >= r.recommendedForZK.maxPriorityFeeGwei
        /\ r.recommendedForZK.maxPriorityFeeGwei
              >= Max2(r.medianTipGwei.p50, r.medianTipGwei.pTarget)

\* a report whose maxFee is exactly one thousandth below pTarget + tip
C10_Witness ==
    /\ pc = "returned"
    /\ tips # <<>>
    /\ report[1].recommendedForZK.maxPriorityFeeGwei > 0
    /\ report[1].recommendedForZK.maxFeePerGasGwei + Milli
          = report[1].baseFeeGwei.pTarget + report[1].recommendedForZK.maxPriorityFeeGwei

\* C6: for the series of any finished sampling, recommendedTip and
\* recommendedMaxFee do not decrease when targetPercentile increases: each
\* step from one percentile of the grid -1/QDen .. (QDen + 1)/QDen to the next
\* keeps or raises both, and so does any increase, 0.5 to 0.95 included.
C6_MonotoneInPercentile ==
    Returned =>
        \A q \in -1..QDen :
            /\ recommended_tip(tips, q) <= recommended_tip(tips, q + 1)
            /\ recommended_max_fee(base_fees, tips, q)
                  <= recommended_max_fee(base_fees, tips, q + 1)

\* series on which the median and the maximum give different recommendations
C6_Witness ==
    /\ pc = "returned"
    /\ Len(tips) >= 2
    /\ recommended_tip(tips, QDen \div 2) < recommended_tip(tips, QDen)
    /\ recommended_max_fee(base_fees, tips, QDen \div 2)
          < recommended_max_fee(base_fees, tips, QDen)
    /\ report[1].recommendedForZK.maxFeePerGasGwei
          = recommended_max_fee(base_fees, tips, args.percentile)

\* x has rank i (counted from 0) in the ascending order of the series s
HasRank(s, x, i) ==
    /\ x \in Elems(s)
    /\ Cardinality({j \in 1..Len(s) : s[j] < x}) <= i
    /\ Cardinality({j \in 1..Len(s) : s[j] <= x}) > i

\* C7: pct returns 0 on the empty series, and otherwise the element of the
\* series whose rank i is nearest to q' * (n - 1), q' being q clamped to
\* [0, 1], an exact half going to the even rank as Python's round does; so
\* q <= 0 gives the minimum and q >= 1 the maximum.
C7_NearestRank ==
    pc = "pct_done" =>
        LET v == fin.values
            len == Len(v)
            qc == IF fin.q < 0 THEN 0 ELSE IF fin.q > QDen THEN QDen ELSE fin.q
            r == fout[1]
        IN  IF v = <<>> THEN r = 0
            ELSE /\ r \in Elems(v)
                 /\ \E i \in 0..(len - 1) :
                       /\ HasRank(v, r, i)
                       /\ 2 * (i * QDen - qc * (len - 1)) <= QDen
                       /\ 2 * (qc * (len - 1) - i * QDen) <= QDen
                       /\ (2 * (i * QDen - qc * (len - 1)) = QDen
                             \/ 2 * (qc * (len - 1) - i * QDen) = QDen) => i % 2 = 0
                 /\ fin.q <= 0 => \A j \in 1..len : r <= v[j]
                 /\ fin.q >= QDen => \A j \in 1..len : r >= v[j]

\* an unsorted series of four and the median percentile: q' * (n - 1) is the
\* exact half 1.5, which goes to the even rank 2
C7_Witness ==
    /\ pc = "pct_done"
    /\ fin.values = <<30, 10, 20, 10>>
    /\ 2 * fin.q = QDen
    /\ fout[1] = 20

\* C8's subjects: blocks in which every fee field is absent or a
\* non-negative integer
WellFormedTx(tx) ==
    /\ tx.gasPrice.k # "null"
    /\ tx.maxFeePerGas.k # "null"
    /\ tx.maxPriorityFeePerGas.k # "null"
WellFormed(block) ==
    /\ block.baseFeePerGas.k # "null"
    /\ \A i \in 1..Len(block.transactions) : WellFormedTx(block.transactions[i])

\* twice the statistical median of a non-empty series of integers
TwiceMedian(s) ==
    LET lo == CHOOSE x \in Elems(s) : HasRank(s, x, (Len(s) - 1) \div 2)
        hi == CHOOSE x \in Elems(s) : HasRank(s, x, Len(s) \div 2)
    IN  lo + hi

\* C8: for a block with non-negative integer fee fields, baseFee is the
\* block's baseFeePerGas (0 if absent) and the two medians are the medians of
\* the per-transaction effective prices and tips (0 without transactions): a
\* type-2 transaction contributes min(maxFeePerGas, baseFee + maxPriorityFeePerGas)
\* and maxPriorityFeePerGas, any other gasPrice and max(0, gasPrice - baseFee);
\* all converted to gwei (20 units to the wei), and all >= 0.
C8_ExtractorValues ==
    (pc = "extract_done" /\ WellFormed(fin)) =>
        LET base == fin.baseFeePerGas.v
            txs == fin.transactions
            eff(tx) == IF tx.type = Some(2)
                       THEN IF tx.maxFeePerGas.v <= base + tx.maxPriorityFeePerGas.v
                            THEN tx.maxFeePerGas.v
                            ELSE base + tx.maxPriorityFeePerGas.v
                       ELSE tx.gasPrice.v
            tip(tx) == IF tx.type = Some(2)
                       THEN tx.maxPriorityFeePerGas.v
                       ELSE IF tx.gasPrice.v > base THEN tx.gasPrice.v - base ELSE 0
            effWei == [i \in 1..Len(txs) |-> eff(txs[i])]
            tipWei == [i \in 1..Len(txs) |-> tip(txs[i])]
            r == fout[1]
        IN  /\ ~r.raised
            /\ r.base_fee_gwei = 20 * base
            /\ IF txs = <<>>
               THEN r.median_effective_gwei = 0 /\ r.median_tip_gwei = 0
               ELSE /\ 2 * r.median_effective_gwei = 20 * TwiceMedian(effWei)
                    /\ 2 * r.median_tip_gwei = 20 * TwiceMedian(tipWei)
            /\ r.base_fee_gwei >= 0
            /\ r.median_effective_gwei >= 0
            /\ r.median_tip_gwei >= 0

\* a block with base fee 50 holding a dynamic-fee transaction (cap 100, tip 10)
\* and a legacy transaction priced 55: medians of {60, 55} and of {10, 5}
C8_Witness ==
    /\ pc = "extract_done"
    /\ fin = Block(Some(50), <<Dynamic(Some(100), Some(10)), Legacy(Some(55))>>)
    /\ 2 * fout[1].median_effective_gwei = 20 * 115
    /\ 2 * fout[1].median_tip_gwei = 20 * 15
    /\ fout[1].base_fee_gwei = 20 * 50

====
